---- MODULE Spec2Model ----
(***************************************************************************)
(* Model of pyqode.language_server.backend.workers: the module-level       *)
(* session state (client, server_status, server_process, server_cmd,       *)
(* project_folders, diagnostics, open_documents) and the worker functions  *)
(* that the editor calls.  Every worker function is one action; the server *)
(* outcomes of the calls it makes are the action's inputs.  The messages   *)
(* a worker sends, the restarts it triggers and its result are recorded in *)
(* history variables (sent, rlog, lastOp, peakLive).                       *)
(***************************************************************************)
EXTENDS Integers, Sequences, FiniteSets, TLC

(* ---------------------------------------------------------------- bounds *)
\* Largest document version an operation may reach.
MaxVersion == 4
\* Most poll timers and polls of DiagnosticsMode at once.
MaxPolls == 3
\* Most invocations of LanguageServerMode.request.
MaxCalls == 3

(* ------------------------------------------------------------- constants *)
WARNING == 1
ERROR == 2
SERVER_NOT_STARTED == 0
SERVER_RUNNING == 1
SERVER_ERROR == 2
\* DiagnosticSeverity.Error of the protocol
SeverityError == 1
\* Python's None for the client handle and the process handle; pids are 1..
NoHandle == 0

\* Document paths the editor uses: '' is the unsaved document.
Paths == {"", "a"}

\* A message text is a sequence of characters.
E501 == <<"E", "5">>
E302 == <<"E", "3">>
MsgLong == [message |-> <<"E", "5", "x">>, severity |-> 2]
MsgBlank == [message |-> <<"E", "3", "y">>, severity |-> 1]
\* A message that is a rule's text and no more, and one shorter than a rule.
MsgBare == [message |-> <<"E", "5">>, severity |-> 3]
MsgShort == [message |-> <<"E">>, severity |-> 4]
\* diagnostics = {} (line 54, line 335)
EmptyDict == [uri |-> "-", diagnostics |-> <<>>, empty |-> TRUE]
\* The publishDiagnostics payloads a server sends: for the document "a",
\* with no message or with four.
Notifications ==
    [uri : {"a"},
     diagnostics : {<<>>, <<MsgLong, MsgBlank, MsgBare, MsgShort>>},
     empty : {FALSE}]
IgnoreRuleSets == { <<>>, <<E501>>, <<E302, E501>> }
\* What an action was called with, for lastOp.
NoInput ==
    [spawn |-> "-", init |-> "-", rules |-> <<>>, buffer |-> EmptyDict,
     arrived |-> FALSE]

\* What a request can end in: a response value, an empty response, or an
\* exception of the transport.
Values == {"v1", "v2"}
Errors == {"ResponseError", "TimeoutError", "TypeError"}
Outcomes == Values \cup {"empty"} \cup Errors

\* What a restart meets: whether the killed process exits within the grace
\* period, whether Popen finds the binary, and how initialize ends.
NoRestart == [kill |-> "died", spawn |-> "ok", init |-> "ok"]
RestartScen ==
    { r \in [kill : {"died", "alive"},
             spawn : {"ok", "FileNotFoundError"},
             init : {"ok", "ResponseError", "TimeoutError"}] :
        /\ (r.kill = "alive" => r.spawn = "ok" /\ r.init = "ok")
        /\ (r.spawn = "FileNotFoundError" => r.init = "ok") }

VARIABLES
    client,           \* NoHandle, or the pid the LspClient is bound to
    server_status,
    server_process,   \* NoHandle, or the pid of the Popen object
    server_cmd,       \* "None" or "cmd"
    project_folders,  \* "None" or "uris"
    diagnostics,      \* EmptyDict or the last notification
    open_documents,   \* path => version, a function on the registered paths
    live,             \* pids of the server processes that are running
    started,          \* server.py has called start_language_server
    arrived,          \* history: a notification came since the buffer was cleared
    sent,             \* history: the messages of the last operation
    rlog,             \* history: the restarts of the last operation
    lastOp,           \* history: the last operation, its call state and result
    peakLive,         \* history: most processes live at once in the last operation
    diagnosticsMode,  \* the editor's DiagnosticsMode: its fields and its timers
    calltipsMode,     \* the editor's CalltipsMode: its fields and its request
    symbolsMode       \* the editor's SymbolsMode: its fields and its requests

vars == <<client, server_status, server_process, server_cmd, project_folders,
          diagnostics, open_documents, live, started, arrived, sent, rlog,
          lastOp, peakLive, diagnosticsMode, calltipsMode, symbolsMode>>

modeVars == <<diagnosticsMode, calltipsMode, symbolsMode>>

(* ------------------------------------------------------------- helpers *)
Max(a, b) == IF a >= b THEN a ELSE b

\* The session as one value, at the entry of an operation.
Cur ==
    [status |-> server_status, client |-> client, proc |-> server_process,
     cmd |-> server_cmd, folders |-> project_folders, diag |-> diagnostics,
     docs |-> open_documents, live |-> live,
     sent |-> <<>>, rlog |-> <<>>, trace |-> <<>>,
     peak |-> Cardinality(live), exc |-> "none", ret |-> "None",
     done |-> FALSE, again |-> FALSE, td |-> 0,
     arrived |-> arrived, input |-> NoInput]

Raise(s, e) == [s EXCEPT !.exc = e]

SetStatus(s, v) == [s EXCEPT !.status = v, !.trace = Append(@, v)]

Requests == {"signatureHelp", "completion", "documentSymbol"}
Syncs == {"didOpen", "didChange"}

\* A message written to the client's process: what it is, the session as
\* it was when it was written (status, target, proc, restartsBefore) and as
\* it was once the call had been handled (ret, statusAfter, procAfter,
\* clientAfter, restartsAfter).
Event(s, kind, path, version, outcome) ==
    [kind |-> kind, path |-> path, version |-> version,
     status |-> s.status, target |-> s.client, proc |-> s.proc,
     outcome |-> outcome,
     ret |-> "-", statusAfter |-> s.status, procAfter |-> s.proc,
     clientAfter |-> s.client, restartsBefore |-> Len(s.rlog),
     restartsAfter |-> Len(s.rlog)]

Send(s, kind, path, version, outcome) ==
    [s EXCEPT !.sent = Append(@, Event(s, kind, path, version, outcome))]

(* ------------------------------------------------- process supervision *)
\* The pid of the process Popen creates: the system gives it a pid that no
\* running process has; it differs from the pid of the Popen object that
\* server_process still names.  The smallest such pid is taken.
NewPid(s) ==
    CHOOSE n \in 1..(Cardinality(s.live) + 2) :
        /\ n \notin s.live \cup {s.proc}
        /\ \A m \in 1..(n - 1) : m \in s.live \cup {s.proc}

\* A start_language_server that keeps the status of line 80 when the
\* handshake fails.
StartLSMut(s, spawn, init) ==
    IF spawn = "FileNotFoundError"
    THEN SetStatus(s, SERVER_ERROR)
    ELSE LET pid == NewPid(s)
             s1 == [s EXCEPT !.proc = pid,
                             !.live = @ \cup {pid},
                             !.peak = Max(@, Cardinality(s.live \cup {pid}))]
             s2 == [SetStatus(s1, SERVER_RUNNING) EXCEPT
                             !.client = pid, !.folders = "uris"]
             s3 == Send(s2, "initialize", "-", 0, init)
         IN  IF init \in {"ResponseError", "TimeoutError"}
             THEN s3
             ELSE [Send(s3, "initialized", "-", 0, "sent") EXCEPT
                             !.cmd = "cmd"]

\* start_language_server(cmd, folders): spawn, handshake, record the command.
StartLS(s, spawn, init) ==
    IF spawn = "FileNotFoundError"
    THEN SetStatus(s, SERVER_ERROR)
    ELSE LET pid == NewPid(s)
             s1 == [s EXCEPT !.proc = pid,
                             !.live = @ \cup {pid},
                             !.peak = Max(@, Cardinality(s.live \cup {pid}))]
             s2 == [SetStatus(s1, SERVER_RUNNING) EXCEPT
                             !.client = pid, !.folders = "uris"]
             s3 == Send(s2, "initialize", "-", 0, init)
         IN  IF init \in {"ResponseError", "TimeoutError"}
             THEN SetStatus(s3, SERVER_ERROR)
             ELSE [Send(s3, "initialized", "-", 0, "sent") EXCEPT
                             !.cmd = "cmd"]

\* One entry of rlog: what a call of restart_language_server did.
RestartEntry(before, after, completed) ==
    [trace |-> after.trace, prior |-> before.proc, at |-> Len(before.sent),
     priorLive |-> before.proc \in after.live,
     docsBefore |-> before.docs, docsAfter |-> after.docs,
     completed |-> completed, final |-> after.status]

\* restart_language_server(): kill, wait for the exit, start again.
\* Popen.wait(timeout=5) raises subprocess.TimeoutExpired when the process
\* is still running after the timeout.
RestartLS(s, r) ==
    LET s0 == [s EXCEPT !.client = NoHandle, !.trace = <<>>]
    IN  IF s0.proc = NoHandle
        THEN LET f == Raise(s0, "AttributeError")
             IN  [f EXCEPT !.rlog = Append(@, RestartEntry(s, f, FALSE)),
                           !.trace = s.trace]
        ELSE IF r.kill = "alive"
        THEN LET f == Raise(s0, "TimeoutExpired")
             IN  [f EXCEPT !.rlog = Append(@, RestartEntry(s, f, FALSE)),
                           !.trace = s.trace]
        ELSE LET s1 == [s0 EXCEPT !.live = @ \ {s0.proc}]
                 s2 == SetStatus(s1, SERVER_NOT_STARTED)
                 s3 == StartLS(s2, r.spawn, r.init)
             IN  [s3 EXCEPT !.rlog = Append(@, RestartEntry(s, s3, TRUE)),
                            !.trace = s.trace \o s3.trace]

(* ------------------------------------------------------ request plumbing *)
\* The test every worker starts with: server_status != SERVER_RUNNING.
StatusNotRunningMut(status) == status = SERVER_NOT_STARTED

StatusNotRunning(status) == status # SERVER_RUNNING

\* Fill in what the session looked like once the request was handled.
Handled(before, after, ret) ==
    LET i == Len(before.sent)
    IN  [after EXCEPT !.ret = ret,
                      !.sent[i].ret = IF after.exc = "none" THEN ret ELSE "raised",
                      !.sent[i].statusAfter = after.status,
                      !.sent[i].procAfter = after.proc,
                      !.sent[i].clientAfter = after.client,
                      !.sent[i].restartsAfter = Len(after.rlog)]

\* A _run_command that also restarts the server on a ResponseError.
RunCommandMut(s, kind, path, version, o, r) ==
    LET s1 == Send(s, kind, path, version, o)
    IN  CASE o = "ResponseError" -> Handled(s1, RestartLS(s1, r), "None")
          [] o = "TimeoutError" -> Handled(s1, RestartLS(s1, r), "None")
          [] o = "TypeError" -> Handled(s1, Raise(s1, "TypeError"), "None")
          [] OTHER -> Handled(s1, s1, o)

\* _run_command(name, fnc, args): the call, None on a ResponseError, a
\* restart and None on a TimeoutError; any other exception passes through.
RunCommand(s, kind, path, version, o, r) ==
    LET s1 == Send(s, kind, path, version, o)
    IN  CASE o = "ResponseError" -> Handled(s1, s1, "None")
          [] o = "TimeoutError" -> Handled(s1, RestartLS(s1, r), "None")
          [] o = "TypeError" -> Handled(s1, Raise(s1, "TypeError"), "None")
          [] OTHER -> Handled(s1, s1, o)

(* ------------------------------------------------------ document registry *)
\* _text_document(path, code): open_documents[path] += 1 (KeyError when the
\* path is not registered); the item carries the new version.
TextDocument(s, path) ==
    IF path \notin DOMAIN s.docs
    THEN Raise(s, "KeyError")
    ELSE [s EXCEPT !.docs[path] = @ + 1]

\* _text_identifier(path): open_documents[path] += 1, as _text_document.
TextIdentifier(s, path) ==
    IF path \notin DOMAIN s.docs
    THEN Raise(s, "KeyError")
    ELSE [s EXCEPT !.docs[path] = @ + 1]

\* client.didChange(_text_identifier(...), [_everything_changed(...)]):
\* the attribute lookup on client comes before the arguments.
DidChange(s, path) ==
    IF s.client = NoHandle
    THEN Raise(s, "AttributeError")
    ELSE LET s1 == TextIdentifier(s, path)
         IN  IF s1.exc # "none" THEN s1
             ELSE Send(s1, "didChange", path, s1.docs[path], "sent")

(* ----------------------------------------------------------- the workers *)
\* One pass of the loop of calltips (lines 150-170): the request, then
\* either break or a didChange.  A TypeError of the request is caught.
CalltipsAttempt(s, path, version, o, r) ==
    IF s.client = NoHandle
    THEN Raise(s, "AttributeError")
    ELSE LET s1 == RunCommand(s, "signatureHelp", path, version, o, r)
         IN  IF s1.exc = "TypeError"
             THEN DidChange([s1 EXCEPT !.exc = "none"], path)
             ELSE IF s1.exc # "none" THEN s1
             ELSE IF s1.ret \in Values THEN [s1 EXCEPT !.done = TRUE]
             ELSE DidChange(s1, path)

\* calltips(request_data) up to the end of the first pass of its loop:
\* the guard, _text_document, attempt 0.  again: the loop goes on.
CalltipsHead(s, path, o1, r1) ==
    IF StatusNotRunning(s.status)
    THEN s
    ELSE LET s1 == TextDocument(s, path)
         IN  IF s1.exc # "none" THEN s1
             ELSE LET a1 == CalltipsAttempt([s1 EXCEPT !.td = s1.docs[path]],
                                            path, s1.docs[path], o1, r1)
                  IN  [a1 EXCEPT !.again = (a1.exc = "none" /\ ~a1.done)]

\* The second pass of the loop of calltips, when there is one.
CalltipsTail(a1, path, o2, r2) ==
    IF a1.again
    THEN CalltipsAttempt(a1, path, a1.td, o2, r2)
    ELSE a1

\* calltips(request_data): at most two passes (for attempt in range(2)).
Calltips(s, path, o1, r1, o2, r2) ==
    CalltipsTail(CalltipsHead(s, path, o1, r1), path, o2, r2)

CalltipsResult(s) ==
    IF s.exc # "none" THEN [kind |-> "raised", val |-> s.exc]
    ELSE IF s.done THEN [kind |-> "tuple", val |-> s.ret]
    ELSE [kind |-> "empty_tuple", val |-> "-"]

\* One pass of the loop of CompletionProvider.complete (lines 263-291): a
\* response that is not None ends the loop; the except clause names
\* ResponseError, which _run_command never lets through.
CompleteAttempt(s, path, version, o, r) ==
    IF s.client = NoHandle
    THEN Raise(s, "AttributeError")
    ELSE LET s1 == RunCommand(s, "completion", path, version, o, r)
         IN  IF s1.exc # "none" THEN s1
             ELSE IF s1.ret # "None" THEN [s1 EXCEPT !.done = TRUE]
             ELSE DidChange(s1, path)

\* CompletionProvider.complete up to the end of the first pass of its loop.
CompleteHead(s, path, o1, r1) ==
    IF StatusNotRunning(s.status)
    THEN s
    ELSE LET s1 == TextDocument(s, path)
         IN  IF s1.exc # "none" THEN s1
             ELSE LET a1 == CompleteAttempt([s1 EXCEPT !.td = s1.docs[path]],
                                            path, s1.docs[path], o1, r1)
                  IN  [a1 EXCEPT !.again = (a1.exc = "none" /\ ~a1.done)]

\* The second pass of the loop of complete, when there is one.
CompleteTail(a1, path, o2, r2) ==
    IF a1.again
    THEN CompleteAttempt(a1, path, a1.td, o2, r2)
    ELSE a1

\* CompletionProvider.complete(code, line, column, path, ...)
Complete(s, path, o1, r1, o2, r2) ==
    CompleteTail(CompleteHead(s, path, o1, r1), path, o2, r2)

ListResult(s) ==
    IF s.exc # "none" THEN [kind |-> "raised", val |-> s.exc]
    ELSE IF s.done /\ s.ret \in Values THEN [kind |-> "list", val |-> s.ret]
    ELSE [kind |-> "empty_list", val |-> "-"]

\* symbols(request_data)
Symbols(s, path, o, r) ==
    IF StatusNotRunning(s.status)
    THEN s
    ELSE LET s1 == TextDocument(s, path)
         IN  IF s1.exc # "none" THEN s1
             ELSE IF s1.client = NoHandle THEN Raise(s1, "AttributeError")
             ELSE LET s2 == RunCommand(s1, "documentSymbol", path,
                                       s1.docs[path], o, r)
                  IN  IF s2.exc # "none" THEN s2
                      ELSE [s2 EXCEPT !.done = (s2.ret # "None")]

\* run_diagnostics(request_data): the test of line 337 ends in "and False".
RunDiagnostics(s, path) ==
    IF StatusNotRunning(s.status)
    THEN s
    ELSE LET s1 == [s EXCEPT !.diag = EmptyDict, !.arrived = FALSE]
         IN  IF path \in DOMAIN s1.docs /\ FALSE
             THEN DidChange(s1, path)
             ELSE LET s2 == [s1 EXCEPT !.docs =
                                [p \in DOMAIN s1.docs \cup {path} |->
                                    IF p = path THEN 0 ELSE s1.docs[p]]]
                  IN  IF s2.client = NoHandle
                      THEN Raise(s2, "AttributeError")
                      ELSE LET s3 == TextDocument(s2, path)
                           IN  Send(s3, "didOpen", path, s3.docs[path], "sent")

RunDiagnosticsResult(s) ==
    IF s.exc # "none" THEN [kind |-> "raised", val |-> s.exc]
    ELSE [kind |-> "status", val |-> s.status]

\* str.startswith
StartsWith(text, prefix) ==
    /\ Len(prefix) <= Len(text)
    /\ SubSeq(text, 1, Len(prefix)) = prefix

\* A filter that drops a message only when its text is a rule.
IgnoredMut(msg, ignore_rules) ==
    \E i \in 1..Len(ignore_rules) : msg.message = ignore_rules[i]

\* any(msg['message'].startswith(ir) for ir in ignore_rules)
Ignored(msg, ignore_rules) ==
    \E i \in 1..Len(ignore_rules) : StartsWith(msg.message, ignore_rules[i])

\* A mapping that compares with < in place of <=.
SeverityMut(msg) == IF msg.severity < SeverityError THEN ERROR ELSE WARNING

\* ERROR if msg['severity'] <= DiagnosticSeverity.Error else WARNING
Severity(msg) == IF msg.severity <= SeverityError THEN ERROR ELSE WARNING

RECURSIVE Filtered(_, _)
\* The loop of poll_diagnostics (lines 359-371).
Filtered(d, ignore_rules) ==
    IF d = <<>> THEN <<>>
    ELSE IF Ignored(Head(d), ignore_rules)
    THEN Filtered(Tail(d), ignore_rules)
    ELSE <<[message |-> Head(d).message, severity |-> Severity(Head(d))]>>
            \o Filtered(Tail(d), ignore_rules)

\* A poll_diagnostics that takes a notification without messages for "no
\* result yet".
PollResultMut(diag, ignore_rules) ==
    IF diag.empty \/ diag.diagnostics = <<>>
    THEN [kind |-> "sentinel", val |-> <<>>]
    ELSE [kind |-> "messages", val |-> Filtered(diag.diagnostics, ignore_rules)]

\* poll_diagnostics(request_data)
PollResult(diag, ignore_rules) ==
    IF diag.empty
    THEN [kind |-> "sentinel", val |-> <<>>]
    ELSE [kind |-> "messages", val |-> Filtered(diag.diagnostics, ignore_rules)]

\* A close_document that puts the registry back to its initial value.
CloseDocumentOpMut(s, path) ==
    IF StatusNotRunning(s.status)
    THEN s
    ELSE [s EXCEPT !.docs = [p \in {""} |-> 0]]

\* close_document(request_data)
CloseDocumentOp(s, path) ==
    IF StatusNotRunning(s.status)
    THEN s
    ELSE IF path \in DOMAIN s.docs
    THEN [s EXCEPT !.docs = [p \in DOMAIN s.docs \ {path} |-> s.docs[p]]]
    ELSE s

\* change_project_folders(request_data)
ChangeFoldersOp(s) == s

NoneResult(s) ==
    IF s.exc # "none" THEN [kind |-> "raised", val |-> s.exc]
    ELSE [kind |-> "none", val |-> "-"]

(* -------------------------------------------------------------- actions *)
\* An operation ran from the current state to s and gave `result`.
Commit(s, op, path, result) ==
    /\ \A p \in DOMAIN s.docs : s.docs[p] <= MaxVersion
    /\ client' = s.client
    /\ server_status' = s.status
    /\ server_process' = s.proc
    /\ server_cmd' = s.cmd
    /\ project_folders' = s.folders
    /\ diagnostics' = s.diag
    /\ open_documents' = s.docs
    /\ live' = s.live
    /\ sent' = s.sent
    /\ rlog' = s.rlog
    /\ peakLive' = s.peak
    /\ arrived' = s.arrived
    /\ lastOp' = [op |-> op, path |-> path, statusAtCall |-> server_status,
                  docsBefore |-> open_documents, docsAfter |-> s.docs,
                  trace |-> s.trace, result |-> result, exc |-> s.exc,
                  input |-> s.input,
                  diagKept |-> (s.diag = diagnostics)]

\* The restart input of an attempt matters only when the attempt times out.
Scen(o) == IF o = "TimeoutError" THEN RestartScen ELSE {NoRestart}

\* The outcome of a request is an input only when the request is made.
FirstOutcomes(outcomes) ==
    IF server_status # SERVER_RUNNING \/ client = NoHandle
    THEN {"empty"}
    ELSE outcomes

\* The outcome of a second attempt is an input only when there is one.
SecondOutcomes(head, outcomes) == IF head.again THEN outcomes ELSE {"empty"}

\* A response as a mode gets it: the invocation of request whose call it
\* answers, and the worker's result.  NoResponse is None, TimedOut the []
\* that request returns after REQUEST_TIMEOUT.
NoResponse == [call |-> 0, value |-> [kind |-> "None", val |-> "-"]]
TimedOut == [call |-> 0, value |-> [kind |-> "empty_list", val |-> "-"]]

\* DiagnosticsMode.__init__(show_diagnostics=True); timers: the
\* QTimer.singleShot(250, self._poll_messages) calls that have not ended in
\* a result; delivered: what went to CheckerMode._on_work_finished last.
\* polls: the poll_diagnostics requests the backend has not answered.
DiagnosticsModeInit ==
    [_last_server_status |-> "None", _show_diagnostics |-> TRUE,
     timers |-> 0, polls |-> 0,
     delivered |-> [kind |-> "nothing", val |-> <<>>]]

\* CalltipsMode.__init__: self._working = False.  request: "sent" while the
\* backend holds a request of the mode, "lost" when it holds one that it
\* will never answer; outstanding: the requests sent and not answered;
\* dropped: "no", or what request was when the last _request_calltip
\* returned at its guard; results: what
\* _on_results_available got last; shown: the tooltip it led to.
CalltipsModeInit ==
    [_working |-> FALSE, request |-> "none", outstanding |-> 0,
     dropped |-> "no", results |-> <<>>,
     shown |-> [highlighted |-> {}, col |-> [t |-> "none", v |-> 0]]]

\* A LanguageServerMode before its first request: _results is not set;
\* calls: the invocations of request so far; waiting: request is in its
\* loop; pending: the calls the backend has not answered; returned: what the
\* last invocation returned.
SymbolsModeInit ==
    [_results |-> NoResponse, calls |-> 0, waiting |-> FALSE, pending |-> {},
     returned |-> [of |-> 0, value |-> NoResponse]]

Init ==
    /\ client = NoHandle
    /\ server_status = SERVER_NOT_STARTED
    /\ server_process = NoHandle
    /\ server_cmd = "None"
    /\ project_folders = "None"
    /\ diagnostics = EmptyDict
    /\ open_documents = [p \in {""} |-> 0]
    /\ live = {}
    /\ started = FALSE
    /\ arrived = FALSE
    /\ diagnosticsMode = DiagnosticsModeInit
    /\ calltipsMode = CalltipsModeInit
    /\ symbolsMode = SymbolsModeInit
    /\ sent = <<>>
    /\ rlog = <<>>
    /\ peakLive = 0
    /\ lastOp = [op |-> "none", path |-> "-",
                 statusAtCall |-> SERVER_NOT_STARTED,
                 docsBefore |-> [p \in {""} |-> 0],
                 docsAfter |-> [p \in {""} |-> 0],
                 trace |-> <<>>, result |-> [kind |-> "none", val |-> "-"],
                 exc |-> "none", input |-> NoInput,
                 diagKept |-> TRUE]

\* server.py: workers.start_language_server(args.command, args.project_folders)
Start ==
    /\ ~started
    /\ started' = TRUE
    /\ UNCHANGED modeVars
    /\ \E r \in {x \in RestartScen : x.kill = "died"} :
       \E s \in {StartLS([Cur EXCEPT !.input.spawn = r.spawn,
                                      !.input.init = r.init],
                           r.spawn, r.init)} :
          Commit(s, "start_language_server", "-", NoneResult(s))

DoCalltips ==
    /\ started
    /\ UNCHANGED <<started, modeVars>>
    /\ \E path \in Paths, o1 \in FirstOutcomes(Outcomes) :
       \E r1 \in Scen(o1) :
       \E a1 \in {CalltipsHead(Cur, path, o1, r1)} :
       \E o2 \in SecondOutcomes(a1, Outcomes) :
       \E r2 \in Scen(o2) :
       \E s \in {CalltipsTail(a1, path, o2, r2)} :
          Commit(s, "calltips", path, CalltipsResult(s))

DoComplete ==
    /\ started
    /\ UNCHANGED <<started, modeVars>>
    /\ \E path \in Paths, o1 \in FirstOutcomes(Outcomes \ {"TypeError"}) :
       \E r1 \in Scen(o1) :
       \E a1 \in {CompleteHead(Cur, path, o1, r1)} :
       \E o2 \in SecondOutcomes(a1, Outcomes \ {"TypeError"}) :
       \E r2 \in Scen(o2) :
       \E s \in {CompleteTail(a1, path, o2, r2)} :
          Commit(s, "complete", path, ListResult(s))

DoSymbols ==
    /\ started
    /\ UNCHANGED <<started, modeVars>>
    /\ \E path \in Paths, o \in FirstOutcomes(Outcomes \ {"TypeError"}) :
       \E r \in Scen(o) :
       \E s \in {Symbols(Cur, path, o, r)} :
          Commit(s, "symbols", path, ListResult(s))

DoRunDiagnostics ==
    /\ started
    /\ UNCHANGED <<started, modeVars>>
    /\ \E path \in Paths :
       \E s \in {RunDiagnostics(Cur, path)} :
          Commit(s, "run_diagnostics", path, RunDiagnosticsResult(s))

DoPollDiagnostics ==
    /\ started
    /\ UNCHANGED <<started, modeVars>>
    /\ \E rules \in IgnoreRuleSets :
          Commit([Cur EXCEPT !.input.rules = rules,
                             !.input.buffer = diagnostics,
                             !.input.arrived = arrived],
                 "poll_diagnostics", "-", PollResult(diagnostics, rules))

DoCloseDocument ==
    /\ started
    /\ UNCHANGED <<started, modeVars>>
    /\ \E path \in Paths :
       \E s \in {CloseDocumentOp(Cur, path)} :
          Commit(s, "close_document", path, NoneResult(s))

DoChangeProjectFolders ==
    /\ started
    /\ UNCHANGED <<started, modeVars>>
    /\ LET s == ChangeFoldersOp(Cur)
       IN  Commit(s, "change_project_folders", "-", NoneResult(s))

\* on_publish_diagnostics(d), called from the reader thread of an endpoint;
\* every process that was spawned has one, also when client is None again.
OnPublishDiagnostics ==
    /\ live # {}
    /\ \E d \in Notifications : diagnostics' = d
    /\ arrived' = TRUE
    /\ UNCHANGED <<client, server_status, server_process, server_cmd,
                   project_folders, open_documents, live, started,
                   sent, rlog, lastOp, peakLive, modeVars>>

Next ==
    \/ Start
    \/ DoCalltips
    \/ DoComplete
    \/ DoSymbols
    \/ DoRunDiagnostics
    \/ DoPollDiagnostics
    \/ DoCloseDocument
    \/ DoChangeProjectFolders
    \/ OnPublishDiagnostics

Spec == Init /\ [][Next]_vars

(* --------------------------------------------------------- CalltipsMode *)
\* Python values that the modes compare or pass on, with their type.
PyInt(n) == [t |-> "int", v |-> n]
PyStr(x) == [t |-> "str", v |-> x]
PyList(x) == [t |-> "list", v |-> x]
\* a == b of Python: values of different types are not equal.
PyEq(a, b) == a.t = b.t /\ a.v = b.v
\* seq[k] of Python, which counts from 0.
Item(seq, k) == seq[k + 1]

\* The column of the cursor that CalltipsMode puts in its request.
Columns == {5}

\* The signature help a server gives for a response value: the label, the
\* parameter labels, the documentation and the active parameter.
SignatureHelp(v) ==
    IF v = "v1"
    THEN [label |-> "f(", parameters |-> <<"a", "b">>,
          documentation |-> "doc", activeParameter |-> 1]
    ELSE [label |-> "g(", parameters |-> <<"x", "y", "z">>,
          documentation |-> "", activeParameter |-> 0]

\* What calltips returns (lines 181-187): (label, [p.label ...],
\* documentation, activeParameter, column), or () without signatures; a
\* call that raised gives the mode an empty result.
CalltipsTuple(result, column) ==
    IF result.kind # "tuple"
    THEN <<>>
    ELSE LET sig == SignatureHelp(result.val)
         IN  <<PyStr(sig.label), PyList(sig.parameters),
               PyStr(sig.documentation), PyInt(sig.activeParameter),
               PyInt(column)>>

\* CalltipsMode._on_results_available(results) and the _display_tooltip it
\* signals: call.index is results[2], the column is results[3]; the
\* parameter with i == call['call.index'] is set in bold.
OnResultsAvailable(m, results) ==
    LET m1 == [m EXCEPT !._working = FALSE, !.results = results]
    IN  IF results = <<>>
        THEN m1
        ELSE LET index == Item(results, 2)
                 params == Item(results, 1).v
             IN  [m1 EXCEPT !.shown =
                    [highlighted |->
                        {i \in 0..(Len(params) - 1) : PyEq(PyInt(i), index)},
                     col |-> Item(results, 3)]]

\* CalltipsMode._request_calltip(source, line, col, path)
RequestCalltip(m) ==
    IF m._working
    THEN [m EXCEPT !.dropped = m.request]
    ELSE [m EXCEPT !._working = TRUE, !.dropped = "no",
                   !.request = "sent", !.outstanding = @ + 1]

\* A key of SHOW_KEYS is released.
CalltipRequest ==
    /\ started
    /\ calltipsMode' = RequestCalltip(calltipsMode)
    /\ UNCHANGED <<client, server_status, server_process, server_cmd,
                   project_folders, diagnostics, open_documents, live,
                   started, arrived, sent, rlog, lastOp, peakLive,
                   diagnosticsMode, symbolsMode>>

\* The backend runs calltips and the result comes back to
\* _on_results_available.
CalltipAnswered ==
    /\ calltipsMode.request = "sent"
    /\ UNCHANGED <<started, diagnosticsMode, symbolsMode>>
    /\ \E path \in Paths, column \in Columns, o1 \in FirstOutcomes(Outcomes) :
       \E r1 \in Scen(o1) :
       \E a1 \in {CalltipsHead(Cur, path, o1, r1)} :
       \E o2 \in SecondOutcomes(a1, Outcomes) :
       \E r2 \in Scen(o2) :
       \E s \in {CalltipsTail(a1, path, o2, r2)} :
          /\ Commit(s, "calltips", path, CalltipsResult(s))
          /\ calltipsMode' =
                OnResultsAvailable(
                    [calltipsMode EXCEPT !.request = "none",
                                         !.outstanding = @ - 1],
                    CalltipsTuple(CalltipsResult(s), column))

\* The backend is gone, or its answer is: on_receive is never called.
CalltipUnanswered ==
    /\ calltipsMode.request = "sent"
    /\ calltipsMode' = [calltipsMode EXCEPT !.request = "lost"]
    /\ UNCHANGED <<client, server_status, server_process, server_cmd,
                   project_folders, diagnostics, open_documents, live,
                   started, arrived, sent, rlog, lastOp, peakLive,
                   diagnosticsMode, symbolsMode>>

NextCalltipsMode ==
    \/ Start
    \/ DoRunDiagnostics
    \/ CalltipRequest
    \/ CalltipAnswered
    \/ CalltipUnanswered

SpecCalltipsMode == Init /\ [][NextCalltipsMode]_vars

(* ---------------------------------------------------------- SymbolsMode *)
\* LanguageServerMode.request up to its loop: self._results = None, then
\* send_request(worker, request_data, on_receive=...).
RequestBegin(m) ==
    [m EXCEPT !._results = NoResponse, !.calls = @ + 1,
              !.pending = @ \cup {m.calls + 1}, !.waiting = TRUE]

\* LanguageServerMode._on_results_available(results)
OnSymbolsAvailable(m, response) ==
    [m EXCEPT !._results = response, !.pending = @ \ {response.call}]

\* SymbolsMode.request_symbols(): self.request(workers.symbols, ...)
SymbolsRequest ==
    /\ started
    /\ ~symbolsMode.waiting
    /\ symbolsMode.calls < MaxCalls
    /\ symbolsMode' = RequestBegin(symbolsMode)
    /\ UNCHANGED <<client, server_status, server_process, server_cmd,
                   project_folders, diagnostics, open_documents, live,
                   started, arrived, sent, rlog, lastOp, peakLive,
                   diagnosticsMode, calltipsMode>>

\* The backend runs symbols for one of the calls it holds, and the answer
\* comes back to _on_results_available: in the loop of request
\* (processEvents) or in the event loop of the application.  A call that
\* raised gives the mode an empty result.
SymbolsAnswered ==
    /\ UNCHANGED <<started, diagnosticsMode, calltipsMode>>
    /\ \E k \in symbolsMode.pending :
       \E path \in Paths, o \in FirstOutcomes(Outcomes \ {"TypeError"}) :
       \E r \in Scen(o) :
       \E s \in {Symbols(Cur, path, o, r)} :
          /\ Commit(s, "symbols", path, ListResult(s))
          /\ symbolsMode' =
                OnSymbolsAvailable(symbolsMode,
                    [call |-> k,
                     value |-> IF s.exc # "none"
                               THEN [kind |-> "empty_list", val |-> "-"]
                               ELSE ListResult(s)])

\* The loop of request sees self._results set: return self._results.
SymbolsReturn ==
    /\ symbolsMode.waiting
    /\ symbolsMode._results # NoResponse
    /\ symbolsMode' =
          [symbolsMode EXCEPT !.waiting = FALSE,
                              !.returned = [of |-> symbolsMode.calls,
                                            value |-> symbolsMode._results]]
    /\ UNCHANGED <<client, server_status, server_process, server_cmd,
                   project_folders, diagnostics, open_documents, live,
                   started, arrived, sent, rlog, lastOp, peakLive,
                   diagnosticsMode, calltipsMode>>

\* REQUEST_TIMEOUT seconds went by with self._results None: return [].
SymbolsTimeout ==
    /\ symbolsMode.waiting
    /\ symbolsMode._results = NoResponse
    /\ symbolsMode' =
          [symbolsMode EXCEPT !.waiting = FALSE,
                              !.returned = [of |-> symbolsMode.calls,
                                            value |-> TimedOut]]
    /\ UNCHANGED <<client, server_status, server_process, server_cmd,
                   project_folders, diagnostics, open_documents, live,
                   started, arrived, sent, rlog, lastOp, peakLive,
                   diagnosticsMode, calltipsMode>>

NextSymbolsMode ==
    \/ Start
    \/ DoRunDiagnostics
    \/ SymbolsRequest
    \/ SymbolsAnswered
    \/ SymbolsReturn
    \/ SymbolsTimeout

SpecSymbolsMode == Init /\ [][NextSymbolsMode]_vars

(* ------------------------------------------------------ DiagnosticsMode *)
\* DiagnosticsMode._on_work_finished(results): a result that is not the
\* dict of run_diagnostics is dropped; otherwise the status is kept and,
\* with _show_diagnostics, QTimer.singleShot(250, self._poll_messages).
OnWorkFinished(m, results) ==
    IF results.kind # "status"
    THEN m
    ELSE LET m1 == [m EXCEPT !._last_server_status = results.val]
         IN  IF m1._show_diagnostics
             THEN [m1 EXCEPT !.timers = @ + 1]
             ELSE m1

\* DiagnosticsMode._on_poll_result(results): [None] arms the timer again,
\* anything else goes to CheckerMode._on_work_finished.
OnPollResult(m, results) ==
    IF results.kind = "sentinel"
    THEN [m EXCEPT !.polls = @ - 1, !.timers = @ + 1]
    ELSE [m EXCEPT !.polls = @ - 1, !.delivered = results]

\* CheckerMode sends run_diagnostics to the backend after an edit; the
\* backend runs it and the result comes back to _on_work_finished.
DiagAnalyse ==
    /\ started
    /\ diagnosticsMode.timers + diagnosticsMode.polls < MaxPolls
    /\ UNCHANGED <<started, calltipsMode, symbolsMode>>
    /\ \E path \in Paths :
       \E s \in {RunDiagnostics(Cur, path)} :
          /\ Commit(s, "run_diagnostics", path, RunDiagnosticsResult(s))
          /\ diagnosticsMode' =
                OnWorkFinished(diagnosticsMode, RunDiagnosticsResult(s))

\* A timer fires: DiagnosticsMode._poll_messages sends poll_diagnostics.
DiagPollMessages ==
    /\ diagnosticsMode.timers > 0
    /\ diagnosticsMode' = [diagnosticsMode EXCEPT !.timers = @ - 1,
                                                  !.polls = @ + 1]
    /\ UNCHANGED <<client, server_status, server_process, server_cmd,
                   project_folders, diagnostics, open_documents, live,
                   started, arrived, sent, rlog, lastOp, peakLive,
                   calltipsMode, symbolsMode>>

\* The backend runs poll_diagnostics and the result comes back to
\* _on_poll_result.
DiagPollAnswered ==
    /\ diagnosticsMode.polls > 0
    /\ UNCHANGED <<started, calltipsMode, symbolsMode>>
    /\ \E rules \in IgnoreRuleSets :
       \E r \in {PollResult(diagnostics, rules)} :
          /\ Commit([Cur EXCEPT !.input.rules = rules,
                                !.input.buffer = diagnostics,
                                !.input.arrived = arrived],
                    "poll_diagnostics", "-", r)
          /\ diagnosticsMode' = OnPollResult(diagnosticsMode, r)

NextDiagnosticsMode ==
    \/ Start
    \/ DiagAnalyse
    \/ DiagPollMessages
    \/ DiagPollAnswered
    \/ OnPublishDiagnostics

\* Timers fire and the backend answers a poll; the server need not publish.
SpecDiagnosticsMode ==
    /\ Init
    /\ [][NextDiagnosticsMode]_vars
    /\ WF_vars(DiagPollMessages)
    /\ WF_vars(DiagPollAnswered)

(* --------------------------------------------------------------- claims *)
IsServerMessage(e) == e.kind \in Requests \cup Syncs
IsSignatureHelp(e) == e.kind = "signatureHelp"
IsSync(e) == e.kind \in Syncs
IsRequest(e) == e.kind \in Requests

\* The restarts of a log that had replaced the process before message i.
Epoch(rl, i) == Cardinality({j \in DOMAIN rl : rl[j].completed /\ rl[j].at < i})

\* The positions of the syncs of path p in a log.
SyncsAt(log, p) == {i \in DOMAIN log : IsSync(log[i]) /\ log[i].path = p}

SetMax(S) == CHOOSE x \in S : \A y \in S : y <= x

\* C1: no public operation raises an exception to its caller, whatever the
\* server does: every failure ends in the operation's neutral result.
C1_NoOperationRaises == lastOp.result.kind # "raised"

\* C2, for the messages of one operation: a sync of a path carries a
\* version greater than the sync of that path before it, be that one in
\* the same operation or in the operation before, unless a restart came
\* between the two.
C2_SyncsIncrease ==
    \A p \in Paths : \A i \in SyncsAt(sent', p) :
        LET earlier == {k \in SyncsAt(sent', p) : k < i}
            before == SyncsAt(sent, p)
        IN  IF earlier # {}
            THEN Epoch(rlog', SetMax(earlier)) = Epoch(rlog', i)
                    => sent'[i].version > sent'[SetMax(earlier)].version
            ELSE (/\ before # {}
                  /\ Epoch(rlog', i) = 0
                  /\ Epoch(rlog, SetMax(before)) = Epoch(rlog, Len(sent) + 1))
                    => sent'[i].version > sent[SetMax(before)].version

\* C2, for the counter: it decreases only in an operation that restarted
\* the session.
C2_CounterKept ==
    \A p \in DOMAIN open_documents \cap DOMAIN open_documents' :
        open_documents'[p] < open_documents[p]
            => \E j \in DOMAIN rlog' : rlog'[j].completed

\* C2: for every path the version of each successive didOpen/didChange is
\* strictly greater than that of the previous one, and the counter never
\* decreases except by a session restart.  Stated of every step that is an
\* operation.
C2_VersionsStrictlyIncrease ==
    [][(<<sent, lastOp>>' # <<sent, lastOp>>)
            => (C2_SyncsIncrease /\ C2_CounterKept)]_vars

\* C3: no request and no didOpen/didChange is issued while the status is
\* not Running, also not by the retry loop after a restart ended in Error.
C3_MessagesOnlyWhileRunning ==
    \A i \in DOMAIN sent :
        IsServerMessage(sent[i]) => sent[i].status = SERVER_RUNNING

C5_CalltipsRetriesOnce ==
    lastOp.op = "calltips" =>
        LET sg == SelectSeq(sent, IsSignatureHelp)
        IN  /\ Len(sg) <= 2
            /\ (Len(sg) = 2 /\ sg[1].ret = "empty" /\ sg[2].ret \in Values)
                  => lastOp.result = [kind |-> "tuple", val |-> sg[2].ret]
            /\ (/\ Len(sg) = 2
                /\ sg[1].ret \in {"empty", "None"}
                /\ sg[2].ret \in {"empty", "None"})
                  => lastOp.result = [kind |-> "empty_tuple", val |-> "-"]

\* The first attempt failed: a transport error, or (calltips) no signatures.
FirstAttemptFailed(e) ==
    \/ e.outcome \in Errors
    \/ e.kind = "signatureHelp" /\ e.outcome = "empty"

\* C6: in complete and calltips a failed first attempt is followed by
\* exactly one resync and then exactly one more request; at most one resync
\* per operation; nothing is sent after the second attempt.
C6_OneResyncOneRetry ==
    lastOp.op \in {"complete", "calltips"} =>
        LET msgs == SelectSeq(sent, IsServerMessage)
        IN  /\ Len(SelectSeq(sent, IsSync)) <= 1
            /\ (Len(msgs) >= 1 /\ FirstAttemptFailed(msgs[1]))
                  => /\ Len(msgs) = 3
                     /\ IsSync(msgs[2])
                     /\ IsRequest(msgs[3])
            /\ Len(SelectSeq(sent, IsRequest)) = 2
                  => IsRequest(msgs[Len(msgs)])

\* C7: a request of _run_command that times out makes the restart run and
\* gives None to the operation; one operation restarts at most twice.
C7_TimeoutRestartsAndGivesNone ==
    /\ \A i \in DOMAIN sent :
          (IsRequest(sent[i]) /\ sent[i].outcome = "TimeoutError")
             => /\ sent[i].restartsAfter = sent[i].restartsBefore + 1
                /\ sent[i].ret = "None"
    /\ Len(rlog) <= 2

\* C8: a ResponseError on a request of _run_command leaves the session as it
\* was: same status (Running stays Running), same process, same client, no
\* restart; the call alone gives None.
C8_ResponseErrorKeepsSession ==
    \A i \in DOMAIN sent :
        (IsRequest(sent[i]) /\ sent[i].outcome = "ResponseError")
           => /\ sent[i].statusAfter = sent[i].status
              /\ sent[i].procAfter = sent[i].proc
              /\ sent[i].clientAfter = sent[i].target
              /\ sent[i].restartsAfter = sent[i].restartsBefore
              /\ sent[i].ret = "None"

C8_Witness ==
    \E i \in DOMAIN sent :
        /\ IsRequest(sent[i])
        /\ sent[i].outcome = "ResponseError"
        /\ sent[i].status = SERVER_RUNNING
        /\ sent[i].statusAfter = SERVER_RUNNING
        /\ sent[i].clientAfter \in live

\* C9: a restart takes the status from NotStarted to its final value in one
\* step, the prior process is dead and gets no message afterwards, and at
\* most one server process is live at any time.
C9_RestartOnceAndOneProcess ==
    /\ \A j \in DOMAIN rlog :
          /\ Len(rlog[j].trace) = 2
          /\ rlog[j].trace[1] = SERVER_NOT_STARTED
          /\ rlog[j].trace[2] \in {SERVER_RUNNING, SERVER_ERROR}
          /\ ~rlog[j].priorLive
          /\ \A i \in DOMAIN sent :
                (/\ i > rlog[j].at
                 /\ \A k \in DOMAIN rlog : k > j => i <= rlog[k].at)
                   => sent[i].target # rlog[j].prior
    /\ peakLive <= 1
    /\ Cardinality(live) <= 1

\* C10: restart_language_server sets every version counter of the registry
\* to 0, also when a request timeout triggered it.
C10_RestartResetsVersions ==
    \A j \in DOMAIN rlog :
        rlog[j].completed
           => \A p \in DOMAIN rlog[j].docsAfter : rlog[j].docsAfter[p] = 0

\* C11: every call of restart_language_server runs to its end, also when
\* the killed process has not exited within the 5 seconds: the status is
\* set to NotStarted and start_language_server is called again.
C11_RestartAlwaysCompletes ==
    \A j \in DOMAIN rlog :
        /\ rlog[j].completed
        /\ Len(rlog[j].trace) >= 1
        /\ rlog[j].trace[1] = SERVER_NOT_STARTED

C13_SentinelUntilNotified ==
    lastOp.op = "poll_diagnostics"
        => /\ ~lastOp.input.arrived
                 => lastOp.result = [kind |-> "sentinel", val |-> <<>>]
           /\ lastOp.input.arrived
                 => /\ lastOp.result.kind = "messages"
                    /\ lastOp.input.buffer \in Notifications
                    /\ \A k \in DOMAIN lastOp.result.val :
                          \E i \in DOMAIN lastOp.input.buffer.diagnostics :
                             lastOp.input.buffer.diagnostics[i].message
                                = lastOp.result.val[k].message

\* A notification without messages arrived after run_diagnostics("a"): the
\* poll returns the empty list.
C13_Witness ==
    /\ lastOp.op = "poll_diagnostics"
    /\ "a" \in DOMAIN open_documents
    /\ lastOp.input.arrived
    /\ lastOp.input.buffer.diagnostics = <<>>
    /\ lastOp.result = [kind |-> "messages", val |-> <<>>]

\* C14, for one step that is a run_diagnostics on a Running session: the
\* buffer is empty afterwards, the result is the status, and exactly one
\* message is sent: a didOpen when the path was not registered before, a
\* didChange when the operation just before was a run_diagnostics of the
\* same path.
C14_Step ==
    (/\ lastOp' # lastOp
     /\ lastOp'.op = "run_diagnostics"
     /\ lastOp'.statusAtCall = SERVER_RUNNING
     /\ client # NoHandle)
        => /\ diagnostics'.empty
           /\ lastOp'.result = [kind |-> "status", val |-> server_status']
           /\ Len(sent') = 1
           /\ sent'[1].path = lastOp'.path
           /\ lastOp'.path \notin DOMAIN open_documents
                 => sent'[1].kind = "didOpen"
           /\ (/\ lastOp.op = "run_diagnostics"
               /\ lastOp.path = lastOp'.path
               /\ lastOp.statusAtCall = SERVER_RUNNING
               /\ lastOp.exc = "none")
                 => sent'[1].kind = "didChange"

\* C14: run_diagnostics on a Running session clears the buffer, sends a
\* didOpen the first time it is called for a path and a didChange on every
\* later call for that path, and returns the status.
C14_OpenOnceThenChange == [][C14_Step]_vars

\* The text begins with the characters of the rule.
BeginsWith(text, rule) ==
    /\ Len(rule) <= Len(text)
    /\ \A n \in DOMAIN rule : text[n] = rule[n]

\* The positions of the messages of d that no rule excludes.
KeptAt(d, rules) ==
    {i \in DOMAIN d : \A n \in DOMAIN rules : ~BeginsWith(d[i].message, rules[n])}

\* The k-th smallest element of a set of positions.
Kth(S, k) == CHOOSE i \in S : Cardinality({j \in S : j <= i}) = k

\* C15: a poll of a buffered notification returns exactly its messages
\* whose text does not start with any ignore rule, in their original order.
C15_FilterByPrefix ==
    (lastOp.op = "poll_diagnostics" /\ lastOp.result.kind = "messages")
        => LET d == lastOp.input.buffer.diagnostics
               kept == KeptAt(d, lastOp.input.rules)
               val == lastOp.result.val
           IN  /\ Len(val) = Cardinality(kept)
               /\ \A k \in DOMAIN val : val[k].message = d[Kth(kept, k)].message

\* Rules ["E5"]: "E5x" and "E5" are dropped, "E3y" and "E" are kept.
C15_Witness ==
    /\ lastOp.op = "poll_diagnostics"
    /\ lastOp.input.rules = <<E501>>
    /\ Len(lastOp.input.buffer.diagnostics) = 4
    /\ Len(lastOp.result.val) = 2
    /\ lastOp.result.val[1].message = MsgBlank.message
    /\ lastOp.result.val[2].message = MsgShort.message

\* C16: a diagnostic of protocol severity 1 is reported as ERROR, one of
\* severity 2, 3 or 4 as WARNING.
C16_SeverityMapping ==
    (lastOp.op = "poll_diagnostics" /\ lastOp.result.kind = "messages")
        => LET d == lastOp.input.buffer.diagnostics
               val == lastOp.result.val
           IN  \A k \in DOMAIN val : \A i \in DOMAIN d :
                  d[i].message = val[k].message
                     => /\ d[i].severity \in 1..4
                        /\ d[i].severity = 1 => val[k].severity = ERROR
                        /\ d[i].severity \in 2..4 => val[k].severity = WARNING

\* Severities 2, 1, 3, 4 come out as WARNING, ERROR, WARNING, WARNING.
C16_Witness ==
    /\ lastOp.op = "poll_diagnostics"
    /\ lastOp.input.rules = <<>>
    /\ Len(lastOp.result.val) = 4
    /\ \A k \in 1..4 :
          lastOp.input.buffer.diagnostics[k].severity = <<2, 1, 3, 4>>[k]
    /\ \A k \in 1..4 :
          lastOp.result.val[k].severity = <<WARNING, ERROR, WARNING, WARNING>>[k]

\* What close_document leaves alone: no message, no restart, no exception,
\* the same status and buffer, and the same entries for all other paths.
CloseFrame ==
    /\ sent = <<>>
    /\ rlog = <<>>
    /\ lastOp.exc = "none"
    /\ server_status = lastOp.statusAtCall
    /\ lastOp.diagKept
    /\ \A p \in Paths \ {lastOp.path} :
          /\ p \in DOMAIN lastOp.docsAfter <=> p \in DOMAIN lastOp.docsBefore
          /\ p \in DOMAIN lastOp.docsBefore
                => lastOp.docsAfter[p] = lastOp.docsBefore[p]

\* C17 as stated: in every session status close_document(path) removes the
\* path from the registry, sends nothing and leaves the other counters, the
\* status and the buffer unchanged.
C17_CloseRemovesAlways ==
    lastOp.op = "close_document"
        => (CloseFrame /\ lastOp.path \notin DOMAIN lastOp.docsAfter)

\* C17 as amended: on a Running session close_document(path) removes the
\* path; on a session that is not Running it returns at once and the
\* registry stays as it was; either way it sends nothing and leaves the other
\* counters, the status and the buffer unchanged.
C17_CloseRemovesWhenRunning ==
    lastOp.op = "close_document"
        => /\ CloseFrame
           /\ lastOp.statusAtCall = SERVER_RUNNING
                 => lastOp.path \notin DOMAIN lastOp.docsAfter
           /\ lastOp.statusAtCall # SERVER_RUNNING
                 => lastOp.docsAfter = lastOp.docsBefore

C17_Witness ==
    /\ lastOp.op = "close_document"
    /\ lastOp.statusAtCall = SERVER_RUNNING
    /\ lastOp.path = "a"
    /\ "a" \in DOMAIN lastOp.docsBefore
    /\ "a" \notin DOMAIN open_documents
    /\ "" \in DOMAIN open_documents
    /\ open_documents[""] >= 1
    /\ ~diagnostics.empty

\* C18, for a poll that comes right after a run_diagnostics(path) on a
\* Running session, with only notifications in between: a list it returns
\* was built from a notification for that path, also when the server knows
\* the notification's document from an earlier cycle.
C18_Step ==
    (/\ lastOp.op = "run_diagnostics"
     /\ lastOp.statusAtCall = SERVER_RUNNING
     /\ lastOp.exc = "none"
     /\ lastOp'.op = "poll_diagnostics"
     /\ lastOp'.result.kind = "messages"
     /\ lastOp'.result.val # <<>>
     /\ lastOp'.input.buffer.uri \in DOMAIN open_documents)
        => lastOp'.input.buffer.uri = lastOp.path

\* C18: a list that poll_diagnostics returns after run_diagnostics(path)
\* holds only diagnostics published for that path in that cycle; a
\* notification of an earlier cycle or for another document is not returned
\* as the result of the current cycle.
C18_OnlyCurrentCycle == [][C18_Step]_vars

\* C19, for the didChange messages of which the state shows that no earlier
\* operation can have opened the document on their process: those of the
\* first operation after start_language_server, and those sent after a
\* restart of the same operation.  Such a didChange has a didOpen of the
\* same path to the same process before it in the operation.
C19_Step ==
    \A i \in DOMAIN sent' :
        (/\ sent'[i].kind = "didChange"
         /\ \/ lastOp.op = "start_language_server"
            \/ Epoch(rlog', i) > 0)
           => \E k \in 1..(i - 1) :
                 /\ sent'[k].kind = "didOpen"
                 /\ sent'[k].path = sent'[i].path
                 /\ sent'[k].target = sent'[i].target
                 /\ Epoch(rlog', k) = Epoch(rlog', i)

\* C19: every didChange sent to a server process for a document comes after
\* a didOpen of that document to that process: none for a path that
\* run_diagnostics never opened, none to a freshly restarted process.
C19_DidChangeAfterDidOpen == [][C19_Step]_vars

\* C20: between the operations, also after a restart that an error cut
\* short, a Running status means that the client handle is set and bound to
\* the current server process, that this process is live, and that the
\* command for a restart is stored.
C20_RunningHasClient ==
    server_status = SERVER_RUNNING
        => /\ client # NoHandle
           /\ client = server_process
           /\ server_process \in live
           /\ server_cmd = "cmd"

\* The polls of DiagnosticsMode that are under way: timers and requests.
PollChains == diagnosticsMode.timers + diagnosticsMode.polls

\* C21: with show_diagnostics, the re-polls that _on_work_finished starts
\* end (a result that is not the sentinel is delivered), also when the
\* status is not Running or the server never publishes; and at most one
\* chain of polls is under way at any time.
C21_PollChainEndsAndIsAlone ==
    /\ [](PollChains <= 1)
    /\ [](PollChains > 0 => <>(PollChains = 0))

\* C22: for a calltips result that is not empty, the parameter set in bold
\* is the one at the result's activeParameter and the column passed on is
\* the result's column.
C22_FieldsReadWherePut ==
    calltipsMode.results # <<>>
        => /\ calltipsMode.shown.highlighted
                 = {Item(calltipsMode.results, 3).v}
           /\ calltipsMode.shown.col = Item(calltipsMode.results, 4)

\* C23: what LanguageServerMode.request returns is the response to the call
\* that this invocation sent, or [] after the timeout; never the response
\* to the call of an earlier invocation.
C23_OwnResponseOrEmpty ==
    \/ symbolsMode.returned.value = TimedOut
    \/ symbolsMode.returned.value.call = symbolsMode.returned.of

\* C24: CalltipsMode never has more than one request outstanding, and a
\* request is dropped only while the backend holds one that it will still
\* answer: once the backend has answered or has failed to answer, the next
\* request is sent.
C24_OneRequestAndFlagCleared ==
    /\ calltipsMode.outstanding <= 1
    /\ calltipsMode.dropped \in {"no", "sent"}

====
